---- MODULE Spec2Model ----
(***************************************************************************)
(* A model of gsound/gsound-context.c: the GSoundContext wrapper around a  *)
(* libcanberra ca_context.  The wrapper's handlers are the actions; the    *)
(* native engine (libcanberra) and GLib's GTask / GCancellable are the     *)
(* environment: a native call's status code is an input of the action that *)
(* makes the call, and the engine's completion callback is an action of    *)
(* its own.                                                                *)
(***************************************************************************)
EXTENDS Integers, Sequences, FiniteSets, TLC

\* ------------------------------------------------------------- bounds
\* play calls (fire-and-forget and asynchronous together) made in one run
MaxPlays == 2
\* addresses the allocator has for native handles
MaxHandles == 2
\* key/value pairs in one attribute list
MaxAttrs == 2

\* ---------------------------------------------------- status codes
CA_SUCCESS == 0
CA_ERROR_INVALID == -2
CA_ERROR_OOM == -4
CA_ERROR_CANCELED == -11
\* GIOErrorEnum value GLib reports for a cancelled GCancellable
G_IO_ERROR_CANCELLED == 19

\* the status codes a native call is let to return in this model
NativeErrors == {CA_ERROR_INVALID, CA_ERROR_CANCELED}
NativeCodes == {CA_SUCCESS} \cup NativeErrors
\* ca_proplist_create fails for want of memory only
AllocCodes == {CA_SUCCESS, CA_ERROR_OOM}
\* what ca_context_create is let to return
CreateCodes == {CA_SUCCESS, CA_ERROR_OOM, CA_ERROR_INVALID}
\* what ca_context_play_full is let to return to an asynchronous play
SubmitCodes == {CA_SUCCESS, CA_ERROR_INVALID}

\* ca_strerror: the message libcanberra gives for a status code
ca_strerror(code) ==
  CASE code = CA_SUCCESS -> "Success"
    [] code = CA_ERROR_INVALID -> "Invalid argument"
    [] code = CA_ERROR_OOM -> "Out of memory"
    [] code = CA_ERROR_CANCELED -> "Canceled"
    [] OTHER -> "Unknown error"

\* ---------------------------------------------------------- GError
NoError == [domain |-> "none", code |-> 0, msg |-> ""]
\* a mutant of the error made of a native status: every failure reported as
\* CA_ERROR_INVALID
GSoundErrorInvalid(code) ==
  [domain |-> "gsound-error-quark", code |-> CA_ERROR_INVALID,
   msg |-> ca_strerror(CA_ERROR_INVALID)]
GSoundError(code) ==
  [domain |-> "gsound-error-quark", code |-> code, msg |-> ca_strerror(code)]
IOCancelledError ==
  [domain |-> "g-io-error-quark", code |-> G_IO_ERROR_CANCELLED,
   msg |-> "Operation was cancelled"]

\* a mutant of test_return: the failure is reported with the sign of the code lost
test_return_wrongcode(code) ==
  [ok |-> code = CA_SUCCESS,
   err |-> IF code = CA_SUCCESS THEN NoError ELSE GSoundError(-code)]

\* a mutant of test_return: the comparison is code <= CA_SUCCESS, so a negative
\* status passes for success and no error is set
test_return_signed(code) ==
  [ok |-> code <= CA_SUCCESS, err |-> NoError]

\* test_return (code, error): TRUE on CA_SUCCESS, else FALSE and *error set to
\* (GSOUND_ERROR, code, ca_strerror (code))
test_return(code) ==
  [ok |-> code = CA_SUCCESS,
   err |-> IF code = CA_SUCCESS THEN NoError ELSE GSoundError(code)]

\* ------------------------------------------------- pointers, tokens
\* A pointer is 64 bits wide, kept as its two 32-bit halves.
Ptr(hi, lo) == [hi |-> hi, lo |-> lo]
NullCancellable == Ptr(0, 0)
\* the GCancellable objects the caller owns: two heap objects 4 GiB apart
Cancellables == {Ptr(0, 16), Ptr(1, 16)}
CancellableArgs == Cancellables \cup {NullCancellable}
\* g_direct_hash (cancellable): GPOINTER_TO_UINT, the low 32 bits of the pointer
g_direct_hash(p) == p.lo

\* --------------------------------------------------- property lists
\* a NULL const char*
NullStr == "(null)"
Keys == {"event.id", "media.filename"}
Vals == {"bell"}
\* ca_proplist_sets (pl, key, val): pl with key bound to val
ca_proplist_sets(pl, key, val) == {p \in pl : p[1] # key} \cup {<<key, val>>}

\* A va_list of const char*: the arguments that precede the caller's NULL sentinel.
VaArg(args, i) == IF i <= Len(args) THEN args[i] ELSE NullStr

RECURSIVE var_args_loop(_, _, _, _, _)
var_args_loop(args, i, pl, nsets, failAt) ==
  LET key == VaArg(args, i)
      val == VaArg(args, i + 1)
  IN  IF key = NullStr THEN [res |-> CA_SUCCESS, pl |-> pl]
      ELSE IF val = NullStr THEN [res |-> CA_ERROR_INVALID, pl |-> pl]
      ELSE IF nsets + 1 = failAt THEN [res |-> CA_ERROR_OOM, pl |-> pl]
      ELSE var_args_loop(args, i + 2, ca_proplist_sets(pl, key, val),
                         nsets + 1, failAt)

\* var_args_to_prop_list (args, pl) on an empty pl; failAt is the ca_proplist_sets
\* call that the engine fails (0: none)
var_args_to_prop_list(args, failAt) == var_args_loop(args, 1, {}, 0, failAt)

\* the attribute lists a caller passes, up to the first NULL that ends the reading:
\* pairs of a key and a value, then nothing (the NULL sentinel) or a key and NULL
RECURSIVE ValueLists(_)
ValueLists(n) ==
  IF n = 0 THEN {<<>>}
  ELSE ValueLists(n - 1) \cup
       {l \o <<k, v>> : l \in {m \in ValueLists(n - 1) : Len(m) = 2 * (n - 1)},
                        k \in Keys, v \in Vals}
VaInputs ==
  ValueLists(MaxAttrs) \cup
  {l \o <<k, NullStr>> : l \in ValueLists(MaxAttrs - 1), k \in Keys}
\* a list in which some key is followed by no value
Malformed(args) == \E i \in 1..Len(args) : i % 2 = 0 /\ args[i] = NullStr

\* the GHashTable attribute sets a caller passes (key -> value or NULL)
HashTables == {{}} \cup {{<<k, v>>} : k \in Keys, v \in Vals \cup {NullStr}}
\* hash_table_to_prop_list (ht, pl): ca_proplist_sets per entry, result ignored;
\* ca_proplist_sets rejects a NULL value
hash_table_to_prop_list(ht) == {p \in ht : p[2] # NullStr}


\* ------------------------------------------------------------ state
NoHandle == 0

VARIABLES
  ca,           \* self->ca: the native handle held, or NoHandle
  liveHandles,  \* handles created and not destroyed
  plays,        \* the play calls made, in order: "simple" or "full"
  tasks,        \* the live GTasks, by the number of the play call that made them
  outstanding,  \* requests the engine accepted whose callback has not ended
  cancelled,    \* the GCancellables that were cancelled
  listeners,    \* per GCancellable, the play calls whose on_cancellable_cancelled
                \* handler is connected
  last,         \* the last handler run: its name, return, error and native calls
  ref           \* the caller's reference to the context: "held"; "dropped", the
                \* object lives on the references of its GTasks and handlers;
                \* "finalized", the last reference was dropped and the object is gone

vars == <<ca, liveHandles, plays, tasks, outstanding, cancelled,
          listeners, last, ref>>

\* one native call made by a handler: the entry point, the handle, the request
\* token or property list handed over, the status returned
Call(fn, h, arg, res) == [fn |-> fn, h |-> h, arg |-> arg, res |-> res]
\* op: the handler; arg: what it was given or computed (per handler); ret, err:
\* its return value ("TRUE", "FALSE", or "void") and its error output; native:
\* its native calls, in order
Last(op, arg, ret, err, native) ==
  [op |-> op, arg |-> arg, ret |-> ret, err |-> err, native |-> native]
\* a mutant of the return value: TRUE whatever the status was
RetTrue(ok) == "TRUE"
Ret(ok) == IF ok THEN "TRUE" ELSE "FALSE"
\* arg of a handler that takes a va_list: the status var_args_to_prop_list
\* returned, or nothing when the handler returned before reading the list
VaRead(res) == [va |-> <<res>>]
VaNotRead == [va |-> <<>>]
NoArg == <<>>
Called(fn) == \E i \in 1..Len(last.native) : last.native[i].fn = fn

\* The native engine is not part of this program: the handlers pass self->ca to it
\* unchecked.  What it answers to a NULL ca_context is taken from the
\* specification (a use of an uninitialized handle is rejected): CA_ERROR_INVALID.
OnHandle(h, res) == IF h = NoHandle THEN CA_ERROR_INVALID ELSE res

Init ==
  /\ ca = NoHandle
  /\ liveHandles = {}
  /\ plays = <<>>
  /\ tasks = [t \in {} |-> 0]
  /\ outstanding = {}
  /\ cancelled = {}
  /\ listeners = [c \in Cancellables |-> {}]
  /\ last = Last("new", NoArg, "void", NoError, <<>>)
  /\ ref = "held"

\* ------------------------------------------------------- initialize
\* a mutant of the guard of gsound_context_real_init: the held handle is not looked at
AlreadyInitializedNever == FALSE

\* if (self->ca) return TRUE;
AlreadyInitialized == ca # NoHandle

\* a mutant of the creation-failure path: the error is dropped and init goes on
CreateFailedNever(r) == FALSE

\* if (!test_return (success, error)) return FALSE;
CreateFailed(r) == ~r.ok

\* the addresses of native handles; ca_context_create hands out the lowest free one
Handles == 1..MaxHandles
FreeHandles == Handles \ liveHandles
NewHandle == CHOOSE h \in FreeHandles : \A k \in FreeHandles : h <= k

\* gsound_context_real_init: createRes is what ca_context_create returns, plRes
\* what ca_proplist_create returns, changeRes what ca_context_change_props_full
\* returns.  The status of ca_proplist_create is not looked at: when it fails, pl
\* is read uninitialized by ca_proplist_sets, ca_context_change_props_full and
\* ca_proplist_destroy, which is undefined behaviour.  Its outcomes are a choice:
\* crash, the process dies in one of these calls; otherwise the calls come back
\* and ca_context_change_props_full answers changeRes, whatever that is.
\* ca_context_create stores a handle only when it succeeds.
gsound_context_real_init(createRes, changeRes, plRes, crash) ==
  IF AlreadyInitialized
  THEN /\ last' = Last("init", NoArg, "TRUE", NoError, <<>>)
       /\ UNCHANGED <<ref, ca, liveHandles, plays, tasks, outstanding, cancelled, listeners>>
  ELSE
    LET r1 == test_return(createRes)
        c1 == Call("ca_context_create", NoHandle, <<>>, createRes)
    IN
    /\ FreeHandles # {}
    /\ IF CreateFailed(r1)
       THEN /\ last' = Last("init", NoArg, "FALSE", r1.err, <<c1>>)
            /\ UNCHANGED <<ca, liveHandles>>
       ELSE
         LET held == IF createRes = CA_SUCCESS THEN NewHandle ELSE ca
             cpl == Call("ca_proplist_create", NoHandle, <<>>, plRes)
             res2 == OnHandle(held, changeRes)
             r2 == test_return(res2)
             c2 == Call("ca_context_change_props_full", held, <<>>, res2)
             c3 == Call("ca_context_destroy", held, <<>>, CA_SUCCESS)
         IN
         IF plRes # CA_SUCCESS /\ crash
         THEN /\ ca' = held
              /\ liveHandles' = (liveHandles \cup {held}) \ {NoHandle}
              /\ last' = Last("init", NoArg, "crash", NoError, <<c1, cpl>>)
         ELSE IF r2.ok
         THEN /\ ca' = held
              /\ liveHandles' = (liveHandles \cup {held}) \ {NoHandle}
              /\ last' = Last("init", NoArg, "TRUE", NoError, <<c1, cpl, c2>>)
         ELSE \* g_clear_pointer (&self->ca, ca_context_destroy)
              /\ ca' = NoHandle
              /\ liveHandles' = liveHandles \ {held}
              /\ last' = Last("init", NoArg, "TRUE", r2.err,
                              IF held = NoHandle THEN <<c1, cpl, c2>>
                              ELSE <<c1, cpl, c2, c3>>)
    /\ UNCHANGED <<ref, plays, tasks, outstanding, cancelled, listeners>>

\* ------------------------------------------------- open, set driver
\* gsound_context_open: test_return (ca_context_open (self->ca), error)
gsound_context_open(nativeRes) ==
  LET res == OnHandle(ca, nativeRes)
      r == test_return(res)
  IN  /\ last' = Last("open", NoArg, Ret(r.ok), r.err,
                      <<Call("ca_context_open", ca, <<>>, res)>>)
      /\ UNCHANGED <<ref, ca, liveHandles, plays, tasks, outstanding, cancelled, listeners>>

\* the driver names a caller passes
Drivers == {"pulse", "null"}
\* gsound_context_set_driver: test_return (ca_context_set_driver (self->ca, driver), error)
gsound_context_set_driver(driver, nativeRes) ==
  LET res == OnHandle(ca, nativeRes)
      r == test_return(res)
  IN  /\ last' = Last("set_driver", NoArg, Ret(r.ok), r.err,
                      <<Call("ca_context_set_driver", ca, driver, res)>>)
      /\ UNCHANGED <<ref, ca, liveHandles, plays, tasks, outstanding, cancelled, listeners>>

\* --------------------------------------------------------- teardown
\* The process died in the undefined behaviour of gsound_context_real_init.
Crashed == last.op = "init" /\ last.ret = "crash"
\* The object is alive until gsound_context_finalize has run or the process died.
Alive == ref # "finalized" /\ ~Crashed
\* The caller holds its reference to the context and can call it.
Owned == Alive /\ ref = "held"

\* The references to the context that the GTasks in heap ts and the connected
\* handlers hold: every live GTask holds one (g_task_new (self, ...): its source
\* object), and so does every connected on_cancellable_cancelled handler
\* (g_object_ref (self) is its user data, released by g_object_unref when the
\* handler is disconnected).
HeldBy(ts) ==
  \/ DOMAIN ts # {}
  \/ \E c \in Cancellables : listeners[c] # {}

\* a mutant of the references to the context: a GTask and a connected handler
\* hold none
ReferencesHeldNever == FALSE
\* The references to the context other than the caller's.
ReferencesHeld == HeldBy(tasks)

\* A GTask is freed and leaves the heap ts: it drops its reference to the context.
\* When the caller has dropped its own and no other is left, that was the last
\* one, and gsound_context_finalize runs inside the step that freed the task:
\* g_clear_pointer (&self->ca, ca_context_destroy).
DropTaskReference(ts) ==
  IF ref = "dropped" /\ ~HeldBy(ts)
  THEN /\ ca' = NoHandle
       /\ liveHandles' = liveHandles \ {ca}
       /\ ref' = "finalized"
  ELSE UNCHANGED <<ca, liveHandles, ref>>
\* the native calls of that gsound_context_finalize: ca_context_destroy on the
\* handle held, none when none is held (g_clear_pointer)
FinalizeCalls(ts) ==
  IF ref = "dropped" /\ ~HeldBy(ts) /\ ca # NoHandle
  THEN <<Call("ca_context_destroy", ca, <<>>, CA_SUCCESS)>>
  ELSE <<>>

\* gsound_context_finalize: g_clear_pointer (&self->ca, ca_context_destroy).  It
\* runs when the last reference to the context is dropped.  Nothing happens to the
\* context after it.
gsound_context_finalize ==
  /\ Alive
  /\ ~ReferencesHeld
  /\ ca' = NoHandle
  /\ liveHandles' = liveHandles \ {ca}
  /\ ref' = "finalized"
  /\ last' = Last("finalize", NoArg, "void", NoError,
                  IF ca = NoHandle THEN <<>>
                  ELSE <<Call("ca_context_destroy", ca, <<>>, CA_SUCCESS)>>)
  /\ UNCHANGED <<plays, tasks, outstanding, cancelled, listeners>>

\* The caller drops its reference to the context, g_object_unref (ctx).  While a
\* GTask or a connected handler holds a reference nothing else happens; otherwise
\* it was the last reference and gsound_context_finalize runs.
g_object_unref_context ==
  /\ ref = "held"
  /\ IF ReferencesHeld
     THEN /\ ref' = "dropped"
          /\ last' = Last("g_object_unref", NoArg, "void", NoError, <<>>)
          /\ UNCHANGED <<ca, liveHandles, plays, tasks, outstanding, cancelled,
                         listeners>>
     ELSE gsound_context_finalize

\* --------------------------------------------- synchronous requests
\* The body shared by gsound_context_change_attrs and gsound_context_cache:
\* ca_proplist_create, var_args_to_prop_list (its result is not looked at), the
\* native call fn on self->ca, test_return of its status.
VariadicRequest(op, fn, args, plRes, failAt, nativeRes) ==
  LET c1 == Call("ca_proplist_create", NoHandle, <<>>, plRes)
  IN  IF plRes # CA_SUCCESS
      THEN last' = Last(op, VaNotRead, "FALSE", test_return(plRes).err, <<c1>>)
      ELSE LET va == var_args_to_prop_list(args, failAt)
               res == OnHandle(ca, nativeRes)
               r == test_return(res)
           IN  last' = Last(op, VaRead(va.res), Ret(r.ok), r.err, <<c1, Call(fn, ca, va.pl, res)>>)

\* The body shared by gsound_context_change_attrsv and gsound_context_cachev.
HashTableRequest(op, fn, attrs, plRes, nativeRes) ==
  LET c1 == Call("ca_proplist_create", NoHandle, <<>>, plRes)
  IN  IF ~test_return(plRes).ok
      THEN last' = Last(op, NoArg, "FALSE", test_return(plRes).err, <<c1>>)
      ELSE LET pl == hash_table_to_prop_list(attrs)
               res == OnHandle(ca, nativeRes)
               r == test_return(res)
           IN  last' = Last(op, NoArg, Ret(r.ok), r.err, <<c1, Call(fn, ca, pl, res)>>)

gsound_context_change_attrs(args, plRes, failAt, nativeRes) ==
  /\ VariadicRequest("change_attrs", "ca_context_change_props_full",
                     args, plRes, failAt, nativeRes)
  /\ UNCHANGED <<ref, ca, liveHandles, plays, tasks, outstanding, cancelled,
                 listeners>>

gsound_context_change_attrsv(attrs, plRes, nativeRes) ==
  /\ HashTableRequest("change_attrsv", "ca_context_change_props_full",
                      attrs, plRes, nativeRes)
  /\ UNCHANGED <<ref, ca, liveHandles, plays, tasks, outstanding, cancelled,
                 listeners>>

\* a mutant of gsound_context_cache: the request is handed to the engine as a play
\* that the engine finishes later
gsound_context_cache_deferred(args, plRes, failAt, nativeRes) ==
  /\ VariadicRequest("cache", "ca_context_cache_full", args, plRes, failAt, nativeRes)
  /\ outstanding' = outstanding \cup {[play |-> 1, canc |-> NullCancellable, id |-> 0, task |-> 0]}
  /\ UNCHANGED <<ref, ca, liveHandles, plays, tasks, cancelled, listeners>>

gsound_context_cache(args, plRes, failAt, nativeRes) ==
  /\ VariadicRequest("cache", "ca_context_cache_full", args, plRes, failAt, nativeRes)
  /\ UNCHANGED <<ref, ca, liveHandles, plays, tasks, outstanding, cancelled,
                 listeners>>

gsound_context_cachev(attrs, plRes, nativeRes) ==
  /\ HashTableRequest("cachev", "ca_context_cache_full", attrs, plRes, nativeRes)
  /\ UNCHANGED <<ref, ca, liveHandles, plays, tasks, outstanding, cancelled,
                 listeners>>

\* ------------------------------------------------------------- play
\* on_cancellable_cancelled (cancellable, self): one ca_context_cancel call
on_cancellable_cancelled(c) ==
  Call("ca_context_cancel", ca, g_direct_hash(c), OnHandle(ca, CA_SUCCESS))

\* g_cancellable_connect (cancellable, on_cancellable_cancelled, g_object_ref (self),
\* g_object_unref): GLib runs the handler at once when the cancellable is already
\* cancelled and connects nothing; otherwise the handler stays connected.
\* a mutant of g_cancellable_connect: the handler is not run for a cancellable
\* that is already cancelled
ConnectCallsNever(c) == <<>>
ConnectCalls(c) ==
  IF c # NullCancellable /\ c \in cancelled THEN <<on_cancellable_cancelled(c)>>
  ELSE <<>>
ConnectListeners(c) ==
  IF c # NullCancellable /\ c \notin cancelled
  THEN [listeners EXCEPT ![c] = @ \cup {Len(plays) + 1}]
  ELSE listeners

\* ca_context_play_full (self->ca, id, pl, cb, userdata): the engine keeps an
\* accepted request (status CA_SUCCESS) until it finishes; id is the token it was
\* given, canc the object the caller passed (which the engine never sees), task
\* the callback's userdata, 0 when no callback was given
Accepted(res) == res = CA_SUCCESS
Request(c, task) ==
  [play |-> Len(plays) + 1, canc |-> c, id |-> g_direct_hash(c), task |-> task]
\* the call as the engine sees it: the token and the callback's userdata (the
\* property list pl is opaque to the wrapper once handed over)
PlayCall(c, pl, task, res) ==
  Call("ca_context_play_full", ca, [id |-> g_direct_hash(c), cb |-> task], res)

\* The body shared by gsound_context_play_simple and gsound_context_play_simplev
\* after the property list was made.
SubmitSimple(op, c, arg, pl, c1, submitRes) ==
  LET res == OnHandle(ca, submitRes)
      r == test_return(res)
  IN  /\ outstanding' = IF Accepted(res) THEN outstanding \cup {Request(c, 0)}
                        ELSE outstanding
      /\ listeners' = ConnectListeners(c)
      /\ last' = Last(op, arg, Ret(r.ok), r.err,
                      <<c1, PlayCall(c, pl, 0, res)>> \o ConnectCalls(c))

gsound_context_play_simple(c, args, plRes, failAt, submitRes) ==
  LET c1 == Call("ca_proplist_create", NoHandle, <<>>, plRes)
      va == var_args_to_prop_list(args, failAt)
  IN  /\ Len(plays) < MaxPlays
      /\ plays' = Append(plays, "simple")
      /\ IF plRes # CA_SUCCESS
         THEN /\ last' = Last("play_simple", VaNotRead, "FALSE", test_return(plRes).err, <<c1>>)
              /\ UNCHANGED <<outstanding, listeners>>
         ELSE SubmitSimple("play_simple", c, VaRead(va.res), va.pl, c1, submitRes)
      /\ UNCHANGED <<ref, ca, liveHandles, tasks, cancelled>>

gsound_context_play_simplev(c, attrs, plRes, submitRes) ==
  LET c1 == Call("ca_proplist_create", NoHandle, <<>>, plRes)
  IN  /\ Len(plays) < MaxPlays
      /\ plays' = Append(plays, "simple")
      /\ IF ~test_return(plRes).ok
         THEN /\ last' = Last("play_simplev", NoArg, "FALSE", test_return(plRes).err, <<c1>>)
              /\ UNCHANGED <<outstanding, listeners>>
         ELSE SubmitSimple("play_simplev", c, NoArg,
                           hash_table_to_prop_list(attrs), c1, submitRes)
      /\ UNCHANGED <<ref, ca, liveHandles, tasks, cancelled>>

\* --------------------------------------------------------- GTask
\* g_task_new (self, cancellable, callback, user_data): a pending task holding the
\* caller's cancellable; GLib creates it with check_cancellable set.  unrefs counts
\* the g_object_unref (task) calls of this file; completed says that the caller's
\* GAsyncReadyCallback has run (the "completed" property of GTask).
g_task_new(c) ==
  [canc |-> c, returns |-> 0, result |-> "none", err |-> NoError,
   cbCodes |-> <<>>, unrefs |-> 0, completed |-> FALSE]

\* g_task_return_error / g_task_return_new_error / g_task_return_boolean: the first
\* call sets the result; GLib refuses a later one and keeps the result
g_task_return(task, result, err) ==
  IF task.returns = 0
  THEN [task EXCEPT !.returns = 1, !.result = result, !.err = err]
  ELSE [task EXCEPT !.returns = @ + 1]
g_task_return_error(task, err) == g_task_return(task, "error", err)
g_task_return_boolean(task) == g_task_return(task, "true", NoError)
\* a mutant of g_object_unref (task): the reference is dropped twice
g_object_unref_twice(task) == [task EXCEPT !.unrefs = @ + 2]
\* g_object_unref (task): the reference taken by g_task_new is dropped
g_object_unref(task) == [task EXCEPT !.unrefs = @ + 1]

Pending(task) == task.returns = 0
Resolved(task) == task.returns > 0
\* a mutant of the heap of GTasks: a task that is resolved has its callback run
\* at once, inside the call that resolved it, and is freed
WithTaskDelivered(t, task) ==
  [u \in (DOMAIN tasks \cup {t}) \ (IF task.returns > 0 THEN {t} ELSE {}) |->
     IF u = t THEN task ELSE tasks[u]]
\* the heap of live GTasks with task t added or replaced, and with t freed
WithTask(t, task) ==
  [u \in DOMAIN tasks \cup {t} |-> IF u = t THEN task ELSE tasks[u]]
WithoutTask(t) == [u \in DOMAIN tasks \ {t} |-> tasks[u]]

\* a mutant of the first failure path of gsound_context_play_full: the return
\* after g_object_unref is missing, so the request is still submitted
ReturnsAfterCreateFailureNever == FALSE

\* the return statement that ends play_full when ca_proplist_create failed
ReturnsAfterCreateFailure == TRUE

\* a mutant of the second failure path: a rejected submission is not reported
RejectedNever(r) == FALSE

\* if (!test_return (res, &inner_error)) after the submission
Rejected(r) == ~r.ok

\* The body shared by gsound_context_play_full and gsound_context_play_fullv:
\* pl is the property list made of the caller's attributes.
PlayFull(op, c, arg, pl, plRes, submitRes) ==
  LET t == Len(plays) + 1
      task0 == g_task_new(c)
      r1 == test_return(plRes)
      c1 == Call("ca_proplist_create", NoHandle, <<>>, plRes)
      task1 == IF r1.ok THEN task0
               ELSE g_object_unref(g_task_return_error(task0, r1.err))
  IN
  /\ Len(plays) < MaxPlays
  /\ plays' = Append(plays, "full")
  /\ IF ~r1.ok /\ ReturnsAfterCreateFailure
     THEN /\ tasks' = WithTask(t, task1)
          /\ last' = Last(op, [arg EXCEPT !.va = <<>>], "void", NoError, <<c1>>)
          /\ UNCHANGED <<outstanding, listeners>>
     ELSE
       LET res == OnHandle(ca, submitRes)
           r2 == test_return(res)
           task2 == IF Rejected(r2)
                    THEN g_object_unref(g_task_return_error(task1, r2.err))
                    ELSE task1
       IN
       /\ tasks' = WithTask(t, task2)
       /\ outstanding' = IF Accepted(res) THEN outstanding \cup {Request(c, t)}
                         ELSE outstanding
       /\ listeners' = ConnectListeners(c)
       /\ last' = Last(op, arg, "void", NoError,
                       <<c1, PlayCall(c, pl, t, res)>> \o ConnectCalls(c))
  /\ UNCHANGED <<ref, ca, liveHandles, cancelled>>

gsound_context_play_full(c, args, plRes, failAt, submitRes) ==
  LET va == var_args_to_prop_list(args, failAt)
  IN  PlayFull("play_full", c, VaRead(va.res), va.pl, plRes, submitRes)

gsound_context_play_fullv(c, attrs, plRes, submitRes) ==
  PlayFull("play_fullv", c, VaNotRead, hash_table_to_prop_list(attrs), plRes, submitRes)

\* a mutant of on_ca_play_full_finished: the engine's status is not handed on
CallbackResultSuccess(task, code) == g_task_return_boolean(task)

\* the branch of on_ca_play_full_finished on error_code
CallbackResult(task, code) ==
  IF code # CA_SUCCESS
  THEN g_task_return_error(task, GSoundError(code))
  ELSE g_task_return_boolean(task)

\* The callback of request r has set the result of its task and has not reached
\* its g_object_unref yet.
InCallback(r) ==
  r.task \in DOMAIN tasks /\ tasks[r.task].cbCodes # <<>>

\* The engine finishes the accepted request r with status code and invokes its
\* callback: on_ca_play_full_finished (ca, id, error_code, task), up to the
\* g_task_return_* call.  That call hands the task to the main loop, so the
\* caller's GAsyncReadyCallback can run before the callback goes on to its
\* g_object_unref: nested in g_task_return_* when the engine calls from a source of
\* the main context, from the main loop's thread when the engine calls from its
\* own.  A callback whose task was freed writes to released memory.
on_ca_play_full_finished(r, code) ==
  /\ r \in outstanding
  /\ r.task # 0
  /\ ~InCallback(r)
  /\ IF r.task \in DOMAIN tasks
     THEN /\ tasks' = WithTask(r.task,
                        CallbackResult(
                          [tasks[r.task] EXCEPT !.cbCodes = Append(@, code)], code))
          /\ outstanding' = outstanding
          /\ last' = Last("on_ca_play_full_finished", [t |-> r.task, code |-> code], "void", NoError, <<>>)
     ELSE /\ tasks' = tasks
          /\ outstanding' = outstanding \ {r}
          /\ last' = Last("on_ca_play_full_finished", [t |-> r.task, code |-> code],
                          "use-after-free",
                          NoError, <<>>)
  /\ UNCHANGED <<ref, ca, liveHandles, plays, cancelled, listeners>>

\* The last statement of on_ca_play_full_finished: g_object_unref (task) drops the
\* reference taken by g_task_new.  The task is freed by it when the caller's
\* GAsyncReadyCallback has run already, and after that callback otherwise.  When
\* the freed task held the last reference to the context, gsound_context_finalize
\* runs inside this step and its ca_context_destroy call is a native call of it.
on_ca_play_full_finished_unref(r) ==
  /\ r \in outstanding
  /\ r.task # 0
  /\ InCallback(r)
  /\ outstanding' = outstanding \ {r}
  /\ LET task == g_object_unref(tasks[r.task])
     IN  IF task.completed
         THEN /\ tasks' = WithoutTask(r.task)
              /\ DropTaskReference(WithoutTask(r.task))
         ELSE /\ tasks' = WithTask(r.task, task)
              /\ UNCHANGED <<ca, liveHandles, ref>>
  /\ last' = Last("on_ca_play_full_finished_unref", [t |-> r.task], "void", NoError,
                  IF g_object_unref(tasks[r.task]).completed
                  THEN FinalizeCalls(WithoutTask(r.task)) ELSE <<>>)
  /\ UNCHANGED <<plays, cancelled, listeners>>

\* The engine finishes an accepted request that has no callback (play_simple).
NativePlaybackEnds(r) ==
  /\ r \in outstanding
  /\ r.task = 0
  /\ outstanding' = outstanding \ {r}
  /\ last' = Last("playback_ends", NoArg, "void", NoError, <<>>)
  /\ UNCHANGED <<ref, ca, liveHandles, plays, tasks, cancelled, listeners>>

\* ----------------------------------------------------- cancellation
\* a mutant of the cancellation path: the pending tasks of the cancellable are
\* resolved locally with a cancellation error
CancelTasksLocally(c) ==
  [t \in DOMAIN tasks |->
     IF tasks[t].canc = c /\ Pending(tasks[t])
     THEN g_task_return_error(tasks[t], IOCancelledError)
     ELSE tasks[t]]

\* what a cancellation does to the tasks: on_cancellable_cancelled touches none
CancelTasks(c) == tasks

\* The caller cancels c (g_cancellable_cancel): every connected handler runs
\* on_cancellable_cancelled once.  Cancelling a cancelled object does nothing.
Cancel(c) ==
  /\ c \notin cancelled
  /\ cancelled' = cancelled \cup {c}
  /\ tasks' = CancelTasks(c)
  /\ last' = Last("cancel", [c |-> c], "void", NoError,
                  [i \in 1..Cardinality(listeners[c]) |-> on_cancellable_cancelled(c)])
  /\ UNCHANGED <<ref, ca, liveHandles, plays, outstanding, listeners>>

\* ----------------------------------------------------------- finish
\* g_task_propagate_boolean (task, error): a task created with a cancellable
\* reports G_IO_ERROR_CANCELLED once that cancellable is cancelled, whatever result
\* was set; otherwise the error or the boolean that was set
g_task_propagate_boolean(task) ==
  IF task.canc # NullCancellable /\ task.canc \in cancelled
  THEN [ret |-> FALSE, err |-> IOCancelledError]
  ELSE IF task.result = "error" THEN [ret |-> FALSE, err |-> task.err]
  ELSE [ret |-> TRUE, err |-> NoError]

\* The caller's GAsyncReadyCallback of task t runs on the main loop and calls
\* gsound_context_play_full_finish (self, result, &error); last.arg keeps the task as
\* it was handed to the callback.  gsound_context_play_full_finish drops no
\* reference: the task is freed after the callback when the reference taken by
\* g_task_new was dropped already, and by that g_object_unref otherwise.  When the
\* freed task held the last reference to the context, gsound_context_finalize runs
\* inside this step and its ca_context_destroy call is a native call of it.
gsound_context_play_full_finish(t) ==
  /\ t \in DOMAIN tasks
  /\ Resolved(tasks[t])
  /\ ~tasks[t].completed
  /\ LET p == g_task_propagate_boolean(tasks[t])
     IN  /\ IF tasks[t].unrefs > 0
            THEN /\ tasks' = WithoutTask(t)
                 /\ DropTaskReference(WithoutTask(t))
            ELSE /\ tasks' = WithTask(t, [tasks[t] EXCEPT !.completed = TRUE])
                 /\ UNCHANGED <<ca, liveHandles, ref>>
         /\ last' = Last("play_full_finish", [t |-> t, task |-> tasks[t]],
                         Ret(p.ret), p.err,
                         IF tasks[t].unrefs > 0
                         THEN FinalizeCalls(WithoutTask(t)) ELSE <<>>)
  /\ UNCHANGED <<plays, outstanding, cancelled, listeners>>

\* ------------------------------------------------------ specification
FailAts == 0..MaxAttrs
Requests == {r \in [play : 1..MaxPlays, canc : CancellableArgs,
                     id : {g_direct_hash(c) : c \in CancellableArgs},
                     task : 0..MaxPlays] : r.id = g_direct_hash(r.canc)}

\* an attribute list and the ca_proplist_sets call that fails while it is read
VaCases == {x \in VaInputs \X FailAts : 2 * x[2] <= Len(x[1])}

\* the cases a play is given: a play hands its property list to the engine
\* unread, so one pair is enough to tell the ways the reading of the list ends
PlayVaCases == {x \in VaCases : Len(x[1]) <= 2}

\* gsound_context_real_init reads the status of ca_context_create only on a
\* context that holds no handle, and makes the other native calls only when that
\* status is CA_SUCCESS; the outcome of the undefined behaviour is a choice only
\* when ca_proplist_create failed.  The inputs that are not read are fixed.
Initialize ==
  /\ Owned
  /\ IF AlreadyInitialized
     THEN gsound_context_real_init(CA_SUCCESS, CA_SUCCESS, CA_SUCCESS, FALSE)
     ELSE \E createRes \in CreateCodes :
            IF createRes # CA_SUCCESS
            THEN gsound_context_real_init(createRes, CA_SUCCESS, CA_SUCCESS, FALSE)
            ELSE \E changeRes \in NativeCodes, plRes \in AllocCodes,
                    crash \in BOOLEAN :
                   /\ crash => plRes # CA_SUCCESS
                   /\ gsound_context_real_init(createRes, changeRes, plRes, crash)
EngineFinishes ==
  /\ Alive
  /\ \E r \in Requests, code \in NativeCodes : on_ca_play_full_finished(r, code)
CallbackReturns ==
  /\ Alive
  /\ \E r \in Requests : on_ca_play_full_finished_unref(r)
CallbackRuns ==
  /\ Alive
  /\ \E t \in 1..MaxPlays : gsound_context_play_full_finish(t)
\* the caller drops its reference to the context
Teardown == Alive /\ g_object_unref_context

\* configuration and cache requests: they return their outcome to the caller and
\* leave the state of the plays alone
NextConfig ==
  \/ Initialize
  \/ Owned /\ \E nativeRes \in NativeCodes : gsound_context_open(nativeRes)
  \/ Owned /\ \E driver \in Drivers, nativeRes \in NativeCodes :
       gsound_context_set_driver(driver, nativeRes)
  \/ Owned /\ \E x \in VaCases, plRes \in AllocCodes, nativeRes \in NativeCodes :
       gsound_context_change_attrs(x[1], plRes, x[2], nativeRes)
  \/ Owned /\ \E attrs \in HashTables, plRes \in AllocCodes, nativeRes \in NativeCodes :
       gsound_context_change_attrsv(attrs, plRes, nativeRes)
  \/ Owned /\ \E x \in VaCases, plRes \in AllocCodes, nativeRes \in NativeCodes :
       gsound_context_cache(x[1], plRes, x[2], nativeRes)
  \/ Owned /\ \E attrs \in HashTables, plRes \in AllocCodes, nativeRes \in NativeCodes :
       gsound_context_cachev(attrs, plRes, nativeRes)
  \/ Teardown

\* fire-and-forget plays, the engine that ends them, cancellation
NextSimple ==
  \/ Initialize
  \/ Owned /\ \E c \in CancellableArgs, x \in PlayVaCases, plRes \in AllocCodes,
        submitRes \in NativeCodes :
       gsound_context_play_simple(c, x[1], plRes, x[2], submitRes)
  \/ Owned /\ \E c \in CancellableArgs, attrs \in HashTables, plRes \in AllocCodes,
        submitRes \in NativeCodes :
       gsound_context_play_simplev(c, attrs, plRes, submitRes)
  \/ Alive /\ \E r \in Requests : NativePlaybackEnds(r)
  \/ Alive /\ \E c \in Cancellables : Cancel(c)
  \/ Teardown

\* asynchronous plays, the engine that finishes them, cancellation and the
\* caller's callback
NextPlay ==
  \/ Initialize
  \/ Owned /\ \E c \in CancellableArgs, x \in PlayVaCases, plRes \in AllocCodes,
        submitRes \in SubmitCodes :
       gsound_context_play_full(c, x[1], plRes, x[2], submitRes)
  \/ Owned /\ \E c \in CancellableArgs, attrs \in HashTables, plRes \in AllocCodes,
        submitRes \in SubmitCodes :
       gsound_context_play_fullv(c, attrs, plRes, submitRes)
  \/ EngineFinishes
  \/ CallbackReturns
  \/ Alive /\ \E c \in Cancellables : Cancel(c)
  \/ CallbackRuns
  \/ Teardown

Next == NextConfig \/ NextSimple \/ NextPlay

\* The whole program is Spec.  A configuration or cache request reads self->ca and
\* writes nothing but `last`; a fire-and-forget play and an asynchronous play share
\* the cancellables, and neither reads what the other writes (the handlers
\* connected by the one, the requests and tasks of the other).  So the claims of
\* each group are checked under the specification of its handlers, which reaches
\* the same values of the variables those handlers read as Spec does.
Spec == Init /\ [][Next]_vars
SpecConfig == Init /\ [][NextConfig]_vars
SpecSimple == Init /\ [][NextSimple]_vars
SpecPlay == Init /\ [][NextPlay]_vars
\* The handlers that return their outcome to the caller, taken together, on the
\* attribute lists of one key: the empty list, a pair, a pair whose
\* ca_proplist_sets fails, a key without a value.
SyncVaCases == {x \in PlayVaCases : \A i \in 1..Len(x[1]) : x[1][i] # "media.filename"}
SyncTables == {ht \in HashTables : \A p \in ht : p[1] # "media.filename"}
NextSync ==
  \/ Initialize
  \/ Owned /\ \E nativeRes \in NativeCodes : gsound_context_open(nativeRes)
  \/ Owned /\ \E driver \in Drivers, nativeRes \in NativeCodes :
       gsound_context_set_driver(driver, nativeRes)
  \/ Owned /\ \E x \in SyncVaCases, plRes \in AllocCodes, nativeRes \in NativeCodes :
       gsound_context_change_attrs(x[1], plRes, x[2], nativeRes)
  \/ Owned /\ \E attrs \in SyncTables, plRes \in AllocCodes, nativeRes \in NativeCodes :
       gsound_context_change_attrsv(attrs, plRes, nativeRes)
  \/ Owned /\ \E x \in SyncVaCases, plRes \in AllocCodes, nativeRes \in NativeCodes :
       gsound_context_cache(x[1], plRes, x[2], nativeRes)
  \/ Owned /\ \E attrs \in SyncTables, plRes \in AllocCodes, nativeRes \in NativeCodes :
       gsound_context_cachev(attrs, plRes, nativeRes)
  \/ Owned /\ \E c \in CancellableArgs, x \in SyncVaCases, plRes \in AllocCodes,
        submitRes \in NativeCodes :
       gsound_context_play_simple(c, x[1], plRes, x[2], submitRes)
  \/ Owned /\ \E c \in CancellableArgs, attrs \in SyncTables, plRes \in AllocCodes,
        submitRes \in NativeCodes :
       gsound_context_play_simplev(c, attrs, plRes, submitRes)
  \/ Alive /\ \E r \in Requests : NativePlaybackEnds(r)
  \/ Alive /\ \E c \in Cancellables : Cancel(c)
  \/ Teardown
SpecSync == Init /\ [][NextSync]_vars

\* the plays of both kinds, taken together
NextPlays == NextSimple \/ NextPlay
SpecPlays == Init /\ [][NextPlays]_vars

\* Every handler of the context, on an engine that serves every request made on a
\* live handle, plays every accepted request to its end and has memory for every
\* property list, with the attribute lists of one key.
NextUse ==
  \/ Initialize
  \/ Owned /\ gsound_context_open(CA_SUCCESS)
  \/ Owned /\ \E driver \in Drivers :
       gsound_context_set_driver(driver, CA_SUCCESS)
  \/ Owned /\ \E x \in SyncVaCases :
       gsound_context_change_attrs(x[1], CA_SUCCESS, x[2], CA_SUCCESS)
  \/ Owned /\ \E attrs \in SyncTables :
       gsound_context_change_attrsv(attrs, CA_SUCCESS, CA_SUCCESS)
  \/ Owned /\ \E x \in SyncVaCases :
       gsound_context_cache(x[1], CA_SUCCESS, x[2], CA_SUCCESS)
  \/ Owned /\ \E attrs \in SyncTables :
       gsound_context_cachev(attrs, CA_SUCCESS, CA_SUCCESS)
  \/ Owned /\ \E c \in CancellableArgs, x \in SyncVaCases :
       gsound_context_play_simple(c, x[1], CA_SUCCESS, x[2], CA_SUCCESS)
  \/ Owned /\ \E c \in CancellableArgs, attrs \in SyncTables :
       gsound_context_play_simplev(c, attrs, CA_SUCCESS, CA_SUCCESS)
  \/ Owned /\ \E c \in CancellableArgs, x \in SyncVaCases :
       gsound_context_play_full(c, x[1], CA_SUCCESS, x[2], CA_SUCCESS)
  \/ Owned /\ \E c \in CancellableArgs, attrs \in SyncTables :
       gsound_context_play_fullv(c, attrs, CA_SUCCESS, CA_SUCCESS)
  \/ Alive /\ \E r \in Requests : NativePlaybackEnds(r)
  \/ Alive /\ \E r \in Requests : on_ca_play_full_finished(r, CA_SUCCESS)
  \/ CallbackReturns
  \/ Alive /\ \E c \in Cancellables : Cancel(c)
  \/ CallbackRuns
  \/ Teardown
SpecUse == Init /\ [][NextUse]_vars

\* The use of a context that holds no native handle: every handler, with every
\* status of the native and allocation calls, called while self->ca is NULL, with
\* cancellation and the main loop.  self->ca is set by gsound_context_real_init
\* only and cleared, once set, by gsound_context_finalize only, so every state of
\* the program in which a live context holds no handle is reached by these steps.
\* The engine accepts no request here and so owes no callback.
NextNoHandle ==
  \/ Initialize
  \/ Owned /\ ca = NoHandle /\ \E nativeRes \in NativeCodes :
       gsound_context_open(nativeRes)
  \/ Owned /\ ca = NoHandle /\ \E driver \in Drivers, nativeRes \in NativeCodes :
       gsound_context_set_driver(driver, nativeRes)
  \/ Owned /\ ca = NoHandle
       /\ \E x \in SyncVaCases, plRes \in AllocCodes, nativeRes \in NativeCodes :
            gsound_context_change_attrs(x[1], plRes, x[2], nativeRes)
  \/ Owned /\ ca = NoHandle
       /\ \E attrs \in SyncTables, plRes \in AllocCodes, nativeRes \in NativeCodes :
            gsound_context_change_attrsv(attrs, plRes, nativeRes)
  \/ Owned /\ ca = NoHandle
       /\ \E x \in SyncVaCases, plRes \in AllocCodes, nativeRes \in NativeCodes :
            gsound_context_cache(x[1], plRes, x[2], nativeRes)
  \/ Owned /\ ca = NoHandle
       /\ \E attrs \in SyncTables, plRes \in AllocCodes, nativeRes \in NativeCodes :
            gsound_context_cachev(attrs, plRes, nativeRes)
  \/ Owned /\ ca = NoHandle
       /\ \E c \in CancellableArgs, x \in SyncVaCases, plRes \in AllocCodes,
             submitRes \in NativeCodes :
            gsound_context_play_simple(c, x[1], plRes, x[2], submitRes)
  \/ Owned /\ ca = NoHandle
       /\ \E c \in CancellableArgs, attrs \in SyncTables, plRes \in AllocCodes,
             submitRes \in NativeCodes :
            gsound_context_play_simplev(c, attrs, plRes, submitRes)
  \/ Owned /\ ca = NoHandle
       /\ \E c \in CancellableArgs, x \in SyncVaCases, plRes \in AllocCodes,
             submitRes \in NativeCodes :
            gsound_context_play_full(c, x[1], plRes, x[2], submitRes)
  \/ Owned /\ ca = NoHandle
       /\ \E c \in CancellableArgs, attrs \in SyncTables, plRes \in AllocCodes,
             submitRes \in NativeCodes :
            gsound_context_play_fullv(c, attrs, plRes, submitRes)
  \/ Alive /\ \E c \in Cancellables : Cancel(c)
  \/ CallbackRuns
  \/ Teardown
SpecNoHandle == Init /\ [][NextNoHandle]_vars

\* The engine invokes the callback of every accepted request, a callback that was
\* invoked runs to its end, and the main loop runs the callback of every resolved
\* task.
FairSpec ==
  SpecPlay /\ WF_vars(EngineFinishes) /\ WF_vars(CallbackReturns)
           /\ WF_vars(CallbackRuns)

\* ------------------------------------------------------------ claims
\* what gsound_context_play_full_finish reports for live task t in this state
FinishReport(t) == g_task_propagate_boolean(tasks[t])
Success == [ret |-> TRUE, err |-> NoError]
IsFinishOf(t) == last.op = "play_full_finish" /\ last.arg.t = t
IsCallback == last.op = "on_ca_play_full_finished"

\* C1: the task of an asynchronous play is resolved at most once: no task has had
\* g_task_return_* called twice, every callback the engine still owes belongs to a
\* live task that is still pending (so the rejection path and the callback never
\* both resolve a task), a callback that is running has called g_task_return_*
\* once on a live task, and no callback has run on a freed task.
C1_ResolvedOnce ==
  /\ \A t \in DOMAIN tasks : tasks[t].returns <= 1
  /\ \A r \in outstanding :
       r.task # 0 => /\ r.task \in DOMAIN tasks
                     /\ ~InCallback(r) => Pending(tasks[r.task])
                     /\ Len(tasks[r.task].cbCodes) <= 1
  /\ last.ret # "use-after-free"
\* two tasks resolved once each, one by the play call itself and one by the
\* engine's callback
C1_Witness ==
  \E t, u \in DOMAIN tasks :
    /\ tasks[t].returns = 1 /\ tasks[t].cbCodes = <<>>
    /\ tasks[u].returns = 1 /\ Len(tasks[u].cbCodes) = 1

\* C2: every asynchronous play is resolved and its caller's callback runs: once
\* task t exists and its callback has not run, the callback of t is eventually
\* run on a resolved t as long as the process lives (under FairSpec: the engine
\* calls back every accepted request, the main loop runs).
C2_EveryPlayCompletes ==
  \A t \in 1..MaxPlays :
    (t \in DOMAIN tasks /\ ~tasks[t].completed)
      ~> ((IsFinishOf(t) /\ Resolved(last.arg.task)) \/ Crashed)
\* every play was made, the callback of a task that the engine resolved has just
\* run, and no task remains
C2_Witness ==
  /\ last.op = "play_full_finish"
  /\ Len(last.arg.task.cbCodes) = 1
  /\ Len(plays) = MaxPlays
  /\ tasks = [t \in {} |-> 0]

\* C3 as claimed: when the engine's callback was invoked with a non-success code c,
\* gsound_context_play_full_finish reports failure with exactly (GSOUND_ERROR, c,
\* ca_strerror (c)).
C3_CallbackCodeAtFinish ==
  (last.op = "play_full_finish" /\ last.arg.task.cbCodes # <<>>
     /\ last.arg.task.cbCodes[1] # CA_SUCCESS)
  => (last.ret = "FALSE" /\ last.err = GSoundError(last.arg.task.cbCodes[1]))

\* C4 as claimed: the cancellable of a play was cancelled while the play was
\* pending (its handler was connected, so it was not cancelled when the play was
\* made) and the engine has just called back with CA_SUCCESS: finish reports
\* success for that task.
C4_SuccessAfterCancel ==
  (IsCallback /\ last.arg.code = CA_SUCCESS /\ last.arg.t \in DOMAIN tasks
     /\ tasks[last.arg.t].canc # NullCancellable
     /\ tasks[last.arg.t].canc \in cancelled
     /\ last.arg.t \in listeners[tasks[last.arg.t].canc])
  => FinishReport(last.arg.t) = Success

\* C5: cancelling a cancellable resolves nothing locally.  The step that cancels c
\* leaves every task, every request of the engine, the handle and the connected
\* handlers as they were and makes only ca_context_cancel calls, one per connected
\* handler, with the token of c; and a pending task stops being pending only in
\* the step of the engine's callback.
C5_CancelOnlyForwards ==
  [][/\ \A c \in Cancellables :
          (c \notin cancelled /\ c \in cancelled')
          => /\ tasks' = tasks
             /\ outstanding' = outstanding
             /\ ca' = ca /\ liveHandles' = liveHandles /\ listeners' = listeners
             /\ Len(last'.native) = Cardinality(listeners[c])
             /\ \A i \in 1..Len(last'.native) :
                  /\ last'.native[i].fn = "ca_context_cancel"
                  /\ last'.native[i].arg = g_direct_hash(c)
     /\ \A t \in DOMAIN tasks :
          (Pending(tasks[t]) /\ (t \notin DOMAIN tasks' \/ Resolved(tasks'[t])))
          => last'.op = "on_ca_play_full_finished" /\ last'.arg.t = t
    ]_vars
\* a cancellable was just cancelled, its cancel request was forwarded, and a task
\* made with it is still pending
C5_Witness ==
  /\ last.op = "cancel"
  /\ Len(last.native) >= 1
  /\ \E t \in DOMAIN tasks : tasks[t].canc = last.arg.c /\ Pending(tasks[t])

\* C6 as claimed: cancelling the cancellable of a task that is already resolved
\* changes nothing that can be observed of it: the task, and what finish reports
\* for it, stay as they were.
C6_LateCancelNoEffect ==
  [][\A c \in Cancellables : \A t \in DOMAIN tasks :
       (c \notin cancelled /\ c \in cancelled' /\ tasks[t].canc = c
          /\ Resolved(tasks[t]))
       => /\ t \in DOMAIN tasks' /\ tasks'[t] = tasks[t]
          /\ FinishReport(t)' = FinishReport(t)
    ]_vars

\* C7 as claimed: when the reading of the attribute list met a key with no value
\* (var_args_to_prop_list returned CA_ERROR_INVALID), the handler fails with that
\* error and calls none of the native entry points that submit the list.
SubmitEntryPoints ==
  {"ca_context_change_props_full", "ca_context_play_full", "ca_context_cache_full"}
VaHandlers == {"change_attrs", "play_simple", "play_full", "cache"}
C7_MalformedNeverSubmitted ==
  (last.op \in VaHandlers /\ last.arg.va = <<CA_ERROR_INVALID>>)
  => /\ last.ret = "FALSE"
     /\ last.err = GSoundError(CA_ERROR_INVALID)
     /\ \A fn \in SubmitEntryPoints : ~Called(fn)

\* C8: initialize is idempotent.  At most one native handle is live at any time,
\* and an initialize on a context that holds a handle returns TRUE with no
\* error, makes no native call and leaves the handle and the live handles alone.
C8_InitIdempotent ==
  /\ [](Cardinality(liveHandles) <= 1)
  /\ [][(last'.op = "init" /\ ca # NoHandle)
        => /\ last'.ret = "TRUE" /\ last'.err = NoError /\ last'.native = <<>>
           /\ ca' = ca /\ liveHandles' = liveHandles
       ]_vars
\* an initialize has just run on a context that held a handle
C8_Witness ==
  last.op = "init" /\ last.native = <<>> /\ ca # NoHandle /\ liveHandles = {ca}

\* C9 as claimed: when ca_context_create succeeded and the commit of the default
\* attributes failed, initialize returns TRUE and sets no error.
C9_DefaultsFailureSwallowed ==
  (last.op = "init" /\ last.native # <<>> /\ last.native[1].res = CA_SUCCESS
     /\ \E i \in 1..Len(last.native) :
          /\ last.native[i].fn = "ca_context_change_props_full"
          /\ last.native[i].res # CA_SUCCESS)
  => (last.ret = "TRUE" /\ last.err = NoError)

\* C10: when ca_context_create fails with code c, initialize returns FALSE, its
\* error output is (GSOUND_ERROR, c, ca_strerror (c)) and the context holds no
\* native handle.
C10_CreateFailure ==
  (last.op = "init" /\ last.native # <<>> /\ last.native[1].res # CA_SUCCESS)
  => /\ last.ret = "FALSE"
     /\ last.err = [domain |-> "gsound-error-quark", code |-> last.native[1].res,
                    msg |-> ca_strerror(last.native[1].res)]
     /\ ca = NoHandle /\ liveHandles = {}
\* an initialize whose ca_context_create failed for want of memory
C10_Witness ==
  /\ last.op = "init" /\ last.ret = "FALSE"
  /\ last.native # <<>> /\ last.native[1].res = CA_ERROR_OOM

\* a native call of the last handler that destroys a handle
DestroyCalls(l) == {i \in 1..Len(l.native) : l.native[i].fn = "ca_context_destroy"}

\* C11 as claimed: every native handle created is destroyed exactly once and only by
\* teardown: a destroy call is made on a live handle (or one the same handler has
\* just created), which is live no more after it; after gsound_context_finalize no handle is live; and no handler other than
\* gsound_context_finalize makes a destroy call.
C11_ReleasedOnceOnTeardown ==
  /\ [][last' # last =>
          \A i \in DestroyCalls(last') :
            /\ \/ last'.native[i].h \in liveHandles
               \/ \E j \in 1..(i - 1) :
                    /\ last'.native[j].fn = "ca_context_create"
                    /\ last'.native[j].res = CA_SUCCESS
            /\ last'.native[i].h \notin liveHandles']_vars
  /\ [](ref = "finalized" => liveHandles = {})
  /\ [](DestroyCalls(last) # {} => last.op = "finalize")

\* C20 as claimed: whenever gsound_context_real_init has returned TRUE, the context
\* holds a live native handle.
C20_InitSuccessMeansHandle ==
  (last.op = "init" /\ last.ret = "TRUE") => (ca # NoHandle /\ ca \in liveHandles)

\* the ca_context_play_full calls of the last handler
Submissions(l) == {i \in 1..Len(l.native) : l.native[i].fn = "ca_context_play_full"}
SimplePlays == {"play_simple", "play_simplev"}

\* C12: a fire-and-forget play returns TRUE iff its ca_context_play_full call
\* returned CA_SUCCESS; it hands the engine no completion callback and makes no
\* task; and it has returned TRUE while the engine still holds the request, so the
\* value does not wait for, or depend on, how playback ends.
C12_SimplePlayReturnsOnAccept ==
  last.op \in SimplePlays =>
    /\ Cardinality(Submissions(last)) <= 1
    /\ last.ret = "TRUE" <=>
         \E i \in Submissions(last) : last.native[i].res = CA_SUCCESS
    /\ \A i \in Submissions(last) : last.native[i].arg.cb = 0
    /\ last.ret = "TRUE" <=>
         \E r \in outstanding : r.play = Len(plays) /\ r.task = 0
    /\ DOMAIN tasks = {}
\* a fire-and-forget play has just returned TRUE and its playback has not ended
C12_Witness ==
  /\ last.op \in SimplePlays /\ last.ret = "TRUE"
  /\ \E r \in outstanding : r.play = Len(plays)

\* the handlers that return a gboolean and an error output
SyncOps == {"open", "set_driver", "change_attrs", "change_attrsv", "play_simple",
            "play_simplev", "cache", "cachev"}
\* the native call whose status a handler returns: its last call, calls of
\* on_cancellable_cancelled aside
StatusCalls(l) == {i \in 1..Len(l.native) : l.native[i].fn # "ca_context_cancel"}
StatusCall(l) == l.native[CHOOSE i \in StatusCalls(l) : \A j \in StatusCalls(l) : j <= i]

\* C13: open, set driver, change attributes, fire-and-forget play and cache return
\* TRUE iff the native call returned CA_SUCCESS; on TRUE no error is set, on FALSE
\* the error is (GSOUND_ERROR, the native status, ca_strerror of that status).
C13_NativeStatusOneToOne ==
  last.op \in SyncOps =>
    /\ StatusCalls(last) # {}
    /\ last.ret = "TRUE" <=> StatusCall(last).res = CA_SUCCESS
    /\ last.ret = "TRUE" => last.err = NoError
    /\ last.ret = "FALSE" =>
         last.err = [domain |-> "gsound-error-quark", code |-> StatusCall(last).res,
                     msg |-> ca_strerror(StatusCall(last).res)]
\* a cache request that the engine refused with CA_ERROR_CANCELED, and so reported
C13_Witness ==
  /\ last.op = "cache" /\ last.ret = "FALSE"
  /\ StatusCall(last).fn = "ca_context_cache_full"
  /\ last.err.code = CA_ERROR_CANCELED /\ last.err.msg = "Canceled"

\* C16: a cache request is synchronous.  The step of gsound_context_cache /
\* gsound_context_cachev makes no task, hands the engine no request that it keeps,
\* connects no cancellation handler, calls only ca_proplist_create and
\* ca_context_cache_full, and has its outcome (TRUE or FALSE) when it returns.
C16_CacheIsSynchronous ==
  [][(last' # last /\ last'.op \in {"cache", "cachev"}) =>
       /\ tasks' = tasks /\ outstanding' = outstanding /\ listeners' = listeners
       /\ \A i \in 1..Len(last'.native) :
            last'.native[i].fn \in {"ca_proplist_create", "ca_context_cache_full"}
       /\ last'.ret \in {"TRUE", "FALSE"}
    ]_vars
\* a cache request has returned TRUE on a context that has a play outstanding and
\* a cancellation handler connected
C16_Witness ==
  /\ last.op \in {"cache", "cachev"} /\ last.ret = "TRUE"
  /\ outstanding # {}
  /\ \E c \in Cancellables : listeners[c] # {}

\* the requests the engine holds that a ca_context_cancel (ca, id) call names
Targets(id) == {r \in outstanding : r.id = id}

\* C15 as claimed: the cancel requests forwarded when a cancellation object is
\* cancelled name only requests that were submitted with that object: never one
\* submitted with another object, never one submitted with none.
C15_CancelRoutedByObject ==
  [][\A c \in Cancellables :
       (c \notin cancelled /\ c \in cancelled') =>
         \A i \in 1..Len(last'.native) :
           \A r \in Targets(last'.native[i].arg) : r.canc = c
    ]_vars

\* C17: outstanding asynchronous plays are independent.  The step in which the
\* engine invokes the callback of one request leaves every other task and every
\* request as it was, also those that share its token, and resolves its own
\* pending task with the status it was given; the step in which that callback
\* ends takes its own request from the engine's and touches no other task.
C17_CallbacksIndependent ==
  /\ [][(last'.op = "on_ca_play_full_finished" /\ tasks' # tasks) =>
         LET t == last'.arg.t
             code == last'.arg.code
         IN  /\ \E r \in outstanding : r.task = t
             /\ outstanding' = outstanding
             /\ \A u \in DOMAIN tasks \ {t} :
                  u \in DOMAIN tasks' /\ tasks'[u] = tasks[u]
             /\ t \in DOMAIN tasks /\ Pending(tasks[t]) /\ t \in DOMAIN tasks'
             /\ tasks'[t].returns = 1
             /\ tasks'[t].cbCodes = <<code>>
             /\ code = CA_SUCCESS =>
                  tasks'[t].result = "true" /\ tasks'[t].err = NoError
             /\ code # CA_SUCCESS =>
                  /\ tasks'[t].result = "error"
                  /\ tasks'[t].err = [domain |-> "gsound-error-quark", code |-> code,
                                      msg |-> ca_strerror(code)]
      ]_vars
  /\ [][(last'.op = "on_ca_play_full_finished_unref" /\ outstanding' # outstanding) =>
         LET t == last'.arg.t
         IN  /\ \E r \in outstanding : r.task = t /\ outstanding' = outstanding \ {r}
             /\ \A u \in DOMAIN tasks \ {t} :
                  u \in DOMAIN tasks' /\ tasks'[u] = tasks[u]
             /\ t \in DOMAIN tasks' =>
                  /\ tasks'[t].result = tasks[t].result
                  /\ tasks'[t].err = tasks[t].err
                  /\ tasks'[t].returns = tasks[t].returns
      ]_vars
\* the callback of one request has run with a failure while another request with
\* the same token is outstanding and its task pending
C17_Witness ==
  /\ last.op = "on_ca_play_full_finished" /\ last.arg.code # CA_SUCCESS
  /\ last.arg.t \in DOMAIN tasks
  /\ \E r \in outstanding :
       /\ r.task # 0 /\ r.task # last.arg.t /\ r.task \in DOMAIN tasks
       /\ r.id = g_direct_hash(tasks[last.arg.t].canc)
       /\ Pending(tasks[r.task])

AsyncPlays == {"play_full", "play_fullv"}

\* C18: the caller's completion callback never runs inside the play call.  After
\* the step of gsound_context_play_full / play_fullv the task it made is live and
\* its callback has not run, also when the call itself resolved the task; the
\* callback runs in a later step of its own, on a task that was resolved before
\* that step.
C18_DeliveryNotReentrant ==
  /\ [][plays' # plays /\ last'.op \in AsyncPlays =>
          /\ Len(plays') \in DOMAIN tasks'
          /\ ~tasks'[Len(plays')].completed]_vars
  /\ [][\A t \in DOMAIN tasks :
          (~tasks[t].completed /\ (t \notin DOMAIN tasks' \/ tasks'[t].completed)) =>
            /\ last'.op = "play_full_finish" /\ last'.arg.t = t
            /\ Resolved(tasks[t])]_vars
  /\ [][\A t \in DOMAIN tasks' : t \notin DOMAIN tasks => last'.op \in AsyncPlays]_vars
\* a play call has returned having resolved its own task (the property list could
\* not be made), and the callback of that task has not run
C18_Witness ==
  /\ last.op \in AsyncPlays
  /\ Len(last.native) = 1 /\ last.native[1].res # CA_SUCCESS
  /\ Len(plays) \in DOMAIN tasks /\ Resolved(tasks[Len(plays)])

\* C19: the reference g_task_new gave the play call is dropped exactly once and
\* only with a result set: no task was unreferenced twice, a pending task not at
\* all, a resolved task that still has the reference is the task of a running
\* on_ca_play_full_finished, which is about to drop it; a task whose request is
\* with the engine was not released by the play call; and a task is freed only
\* resolved and with the reference dropped once.
C19_TaskReleasedOnce ==
  /\ [](\A t \in DOMAIN tasks :
          /\ tasks[t].unrefs <= 1
          /\ Pending(tasks[t]) => tasks[t].unrefs = 0
          /\ (Resolved(tasks[t]) /\ tasks[t].unrefs = 0) =>
               \E r \in outstanding : r.task = t /\ InCallback(r))
  /\ [](\A r \in outstanding :
          r.task # 0 => r.task \in DOMAIN tasks /\ tasks[r.task].unrefs = 0)
  /\ [][\A t \in DOMAIN tasks : t \notin DOMAIN tasks' =>
          /\ Resolved(tasks[t])
          /\ \/ tasks[t].unrefs = 1
             \/ /\ tasks[t].unrefs = 0
                /\ last'.op = "on_ca_play_full_finished_unref" /\ last'.arg.t = t]_vars
\* one task released by the play call that rejected it, another by the engine's
\* callback, which has just ended
C19_Witness ==
  \E t, u \in DOMAIN tasks :
    /\ tasks[t].unrefs = 1 /\ tasks[t].cbCodes = <<>> /\ tasks[t].result = "error"
    /\ tasks[u].unrefs = 1 /\ tasks[u].cbCodes # <<>>
    /\ last.op = "on_ca_play_full_finished_unref" /\ last.arg.t = u

\* C14: a context that holds no native handle is unusable.  Every open, set-driver,
\* change-attributes, fire-and-forget play and cache made on it returns FALSE with
\* an error; an asynchronous play made on it resolves its task to a failure that
\* finish reports; no native call that is given the missing handle succeeds, and
\* the engine accepts no request.
C14_UninitializedFailsFast ==
  [][(ca = NoHandle /\ last' # last /\ last'.op \in SyncOps \cup AsyncPlays) =>
       /\ outstanding' = outstanding
       /\ \A i \in 1..Len(last'.native) :
            last'.native[i].fn # "ca_proplist_create" =>
              last'.native[i].h = NoHandle /\ last'.native[i].res # CA_SUCCESS
       /\ last'.op \in SyncOps =>
            last'.ret = "FALSE" /\ last'.err # NoError
       /\ last'.op \in AsyncPlays =>
            /\ Len(plays') \in DOMAIN tasks'
            /\ tasks'[Len(plays')].result = "error"
            /\ tasks'[Len(plays')].err # NoError
            /\ ~g_task_propagate_boolean(tasks'[Len(plays')]).ret
    ]_vars
\* an asynchronous play made on a context whose initialization had failed was
\* refused by the engine and its task resolved to a failure
C14_Witness ==
  /\ ca = NoHandle /\ liveHandles = {}
  /\ last.op \in AsyncPlays
  /\ Len(last.native) >= 2 /\ last.native[2].fn = "ca_context_play_full"
  /\ last.native[2].res = CA_ERROR_INVALID
  /\ tasks[Len(plays)].result = "error"

\* the ca_context_cancel calls of the last handler
CancelCalls(l) == {i \in 1..Len(l.native) : l.native[i].fn = "ca_context_cancel"}
AnyPlay == SimplePlays \cup AsyncPlays
\* play call n has its handler connected to some cancellable
Connected(n) == \E c \in Cancellables : n \in listeners[c]

\* C21: the cancel request of a play call's handler never precedes the call's
\* submission.  In a play call every ca_context_cancel call comes after the
\* ca_context_play_full call and names its token; a call that submitted nothing
\* connected no handler and forwarded nothing; a play made with a cancellable that
\* was already cancelled forwarded the cancel request after its submission, in the
\* same call, and one made with a cancellable not yet cancelled forwarded none and
\* has its handler connected; and a handler gets connected only in a step of its
\* own play call that made the submission.
C21_CancelAfterSubmission ==
  /\ [](last.op \in AnyPlay =>
          /\ \A i \in CancelCalls(last) :
               \E j \in Submissions(last) :
                 j < i /\ last.native[j].arg.id = last.native[i].arg
          /\ Submissions(last) = {} =>
               CancelCalls(last) = {} /\ ~Connected(Len(plays))
          /\ (last.op \in AsyncPlays /\ Submissions(last) # {}
                /\ tasks[Len(plays)].canc # NullCancellable) =>
               LET c == tasks[Len(plays)].canc
               IN  IF c \in cancelled
                   THEN /\ Cardinality(CancelCalls(last)) = 1
                        /\ Len(plays) \notin listeners[c]
                   ELSE /\ CancelCalls(last) = {}
                        /\ Len(plays) \in listeners[c])
  /\ [][\A c \in Cancellables : \A n \in listeners'[c] \ listeners[c] :
          /\ last'.op \in AnyPlay /\ plays' # plays /\ n = Len(plays')
          /\ Submissions(last') # {}]_vars
\* a play made with a cancellable that was already cancelled: the request was
\* submitted, then the cancel request for its token forwarded
C21_Witness ==
  /\ last.op \in AsyncPlays
  /\ Len(last.native) = 3
  /\ last.native[2].fn = "ca_context_play_full" /\ last.native[2].res = CA_SUCCESS
  /\ last.native[3].fn = "ca_context_cancel"
  /\ last.native[3].arg = last.native[2].arg.id
  /\ tasks[Len(plays)].canc \in cancelled

\* C22: teardown never takes the handle from under a play or a handler.  Once
\* gsound_context_finalize has run, no GTask is live, no on_cancellable_cancelled
\* handler is connected and the engine owes no completion callback: while any of
\* them exists the context is referenced and is not torn down, so no callback and
\* no forwarded cancel request finds a context that was torn down.
C22_NoTeardownWhileInUse ==
  ref = "finalized" =>
    /\ DOMAIN tasks = {}
    /\ \A c \in Cancellables : listeners[c] = {}
    /\ \A r \in outstanding : r.task = 0
    /\ ca = NoHandle /\ liveHandles = {}
\* the caller had dropped its reference while an asynchronous play was in flight;
\* the context was torn down, and its handle destroyed, only when the engine's
\* callback released the task after the caller's callback had run
C22_Witness ==
  /\ ref = "finalized"
  /\ last.op = "on_ca_play_full_finished_unref"
  /\ Len(last.native) = 1 /\ last.native[1].fn = "ca_context_destroy"
  /\ ca = NoHandle /\ liveHandles = {}
  /\ \E i \in 1..Len(plays) : plays[i] = "full"
====
